---- MODULE Spec2Model ----
(***************************************************************************)
(* Model of clbarnes/stats_supplement:                                     *)
(*   src/fwer_corrections.py  test_corrected and the three family-wise     *)
(*                            error rate corrections it dispatches to      *)
(*   src/stattests.py         rank, calculate_z, z_to_p, mannwhitneyu      *)
(*                                                                         *)
(* Both entry points are pure functions.  A behaviour is one call: Init    *)
(* draws the entry point and its arguments, the action of that entry       *)
(* point runs the whole call and records its locals and its result.        *)
(*                                                                         *)
(* Number representation.                                                  *)
(*  - p-values and alpha are counted in thousandths (Denom): 5 is 0.005,   *)
(*    50 is 0.05.  p * n and p * factor stay exact in that unit.           *)
(*  - ranks, rank sums, U1, U2 and mean are half-integers in the code;     *)
(*    the model stores each of them DOUBLED (rank 1.5 is stored as 3).     *)
(*  - z = (U - mean) / std has an irrational denominator; the model keeps  *)
(*    z exactly as its sign and the fraction num / den of its square.      *)
(*  - Sequences are indexed from 1, so an original index i of the code is  *)
(*    i + 1 here, and sorted position k of the code is k + 1 here.         *)
(***************************************************************************)
EXTENDS Integers, Sequences, FiniteSets

VARIABLES
    pc,                 \* "call": the call is about to run; "done": it has ended
    fn,                 \* entry point called: "test_corrected" or "mannwhitneyu"
    p_values,           \* test_corrected: argument p_values (thousandths)
    alpha_arg,          \* test_corrected: <<>> when alpha is omitted, else <<alpha>>
    routine_arg,        \* test_corrected: <<>> when routine is omitted, else <<name>>
    x1,                 \* mannwhitneyu: argument x1
    x2,                 \* mannwhitneyu: argument x2
    p_arg,              \* mannwhitneyu: <<>> when p is omitted, else <<p>> (thousandths)
    outcome,            \* "pending", "returned", or the exception that ended the call
    called,             \* test_corrected: the correction routine that ran, or "none"
    sorted_pvals_tup,   \* _holm_bonferroni: local sorted_pvals_tup
    corrected_pvals_tup,\* _holm_bonferroni: local corrected_pvals_tup
    trues,              \* _holm_bonferroni: local trues
    results,            \* test_corrected: returned boolean vector
    corrected_pvals,    \* test_corrected: returned corrected p-values
    rank_dict,          \* mannwhitneyu: local rank_dict (doubled ranks)
    U1,                 \* calculate_z: local U1 (doubled)
    U2,                 \* calculate_z: local U2 (doubled)
    z,                  \* mannwhitneyu: local z
    p_val,              \* mannwhitneyu: returned p-value (thousandths), -1 when none
    significant         \* mannwhitneyu: returned decision

vars == <<pc, fn, p_values, alpha_arg, routine_arg, x1, x2, p_arg, outcome, called,
          sorted_pvals_tup, corrected_pvals_tup, trues, results, corrected_pvals,
          rank_dict, U1, U2, z, p_val, significant>>

(***************************************************************************)
(* Bounds and input sets                                                   *)
(***************************************************************************)
\* Longest p-value vector explored.
MaxLen == 4

\* Longest sample explored.
MaxN == 3

\* Thousandths: the unit p-values, alpha and p are counted in.
Denom == 10 ^ 3

\* p-values explored: 0, 0.005, 0.01, 0.03, 0.04.
PVals == {0, 5, 10, 30, 40}

\* alpha given explicitly: 0.02.  (Omitted, it is 0.05.)
AlphaGiven == {20}

\* Routine names given explicitly: the three known ones and an unknown one.
RoutineGiven == {"holm_bonferroni", "bonferroni", "sidak", "fdr"}

\* Observations explored in both samples.
Observations == {1, 2, 3}

\* Threshold p given explicitly: 0.01.  (Omitted, it is 0.05.)
PGiven == {10}

SeqsUpTo(S, n) == UNION {[1..k -> S] : k \in 0..n}

\* An optional argument: <<>> (omitted) or <<v>>.
Optional(S) == {<<>>} \cup {<<v>> : v \in S}

\* The sample pairs named by the documentation besides the enumerated ones.
ScenarioPairs == { << <<1, 2, 3, 4, 5>>, <<1, 2, 3, 4, 5>> >>,
                   << <<1, 2, 3>>, <<10, 11, 12>> >> }

(***************************************************************************)
(* Generic helpers                                                         *)
(***************************************************************************)
Range(s) == {s[i] : i \in DOMAIN s}

RECURSIVE SumSeq(_)
\* Python's sum over a sequence.
SumSeq(s) == IF s = <<>> THEN 0 ELSE s[1] + SumSeq(Tail(s))

\* collections.Counter of a sequence: value -> number of occurrences.
Counter(s) == [v \in Range(s) |-> Cardinality({i \in DOMAIN s : s[i] = v})]

\* A default argument value.
ArgOr(arg, default) == IF arg = <<>> THEN default ELSE arg[1]

(***************************************************************************)
(* src/fwer_corrections.py                                                 *)
(***************************************************************************)
\* enumerate(p_values): the pairs <<original index, p-value>>.
Enumerate(p) == [i \in 1..Len(p) |-> <<i, p[i]>>]

\* Where sorted() puts e in an already sorted sequence: behind every element whose
\* key (component c) is <= e's key, which keeps equal keys in input order.
InsertByKey(s, e, c) ==
    LET k == Cardinality({i \in DOMAIN s : s[i][c] <= e[c]})
    IN  SubSeq(s, 1, k) \o <<e>> \o SubSeq(s, k + 1, Len(s))

RECURSIVE SortedByKey(_, _)
\* sorted(s, key=lambda x: x[c]): a stable ascending sort of tuples by component c.
SortedByKey(s, c) ==
    IF s = <<>> THEN <<>>
    ELSE InsertByKey(SortedByKey(SubSeq(s, 1, Len(s) - 1), c), s[Len(s)], c)

\* _bonferroni: every p-value times n, tested elementwise against alpha.
Bonferroni(p, alpha) ==
    LET n == Len(p)
        corrected == [i \in 1..Len(p) |-> p[i] * n]
    IN  [called |-> "bonferroni",
         sorted_pvals_tup |-> <<>>, corrected_pvals_tup |-> <<>>, trues |-> <<>>,
         results |-> [i \in 1..Len(p) |-> corrected[i] < alpha],
         corrected_pvals |-> corrected]

\* Ten-thousandths: the resolution the n-th root of _sidak is computed to.
RootDenom == 10 ^ 4

RECURSIVE PowFix(_, _)
\* (r / RootDenom) ** n in ten-thousandths, rounded down after every product.
PowFix(r, n) == IF n = 1 THEN r ELSE (PowFix(r, n - 1) * r) \div RootDenom

\* (1 - alpha) ** (1. / n) in ten-thousandths, rounded down: PowFix is monotone in
\* r, so the root is the number of r >= 1 whose n-th power does not exceed 1 - alpha.
RootFix(alpha, n) ==
    LET base == (Denom - alpha) * (RootDenom \div Denom)
    IN  Cardinality({r \in 1..RootDenom : PowFix(r, n) <= base})

\* alpha's default value, in thousandths.
DefaultAlpha == 50

\* The values alpha takes in the calls explored.
Alphas == AlphaGiven \cup {DefaultAlpha}

\* The factor of _sidak, in thousandths: alpha / (1 - (1 - alpha) ** (1. / n)),
\* and 1 for an empty vector.  Tabulated once per (alpha, n).
SidakTable ==
    [a \in Alphas, n \in 0..MaxLen |->
        IF n # 0
        THEN (a * RootDenom) \div (RootDenom - RootFix(a, n))
        ELSE Denom]

SidakCorrection(alpha, n) == SidakTable[alpha, n]

\* _sidak: every p-value times the factor, tested elementwise against alpha.  The
\* factor is a float in the code; here it is fixed point, rounded down, and agrees
\* with the float to about one percent.
Sidak(p, alpha) ==
    LET n == Len(p)
        correction == SidakCorrection(alpha, n)
        corrected == [i \in 1..Len(p) |-> (p[i] * correction) \div Denom]
    IN  [called |-> "sidak",
         sorted_pvals_tup |-> <<>>, corrected_pvals_tup |-> <<>>, trues |-> <<>>,
         results |-> [i \in 1..Len(p) |-> corrected[i] < alpha],
         corrected_pvals |-> corrected]

\* FactorRange with the multipliers handed out in ascending order: 1, 2, ..., n.
FactorRangeAscending(n) == [k \in 1..n |-> k]

\* range(len(p_values), 0, -1): n, n-1, ..., 1.
FactorRange(n) == [k \in 1..n |-> n - k + 1]

\* The list comprehension over zip(sorted_pvals_tup, range(n, 0, -1)).
CorrectedTup(sorted) ==
    LET factor == FactorRange(Len(sorted))
    IN  [k \in 1..Len(sorted) |-> <<sorted[k][1], sorted[k][2] * factor[k]>>]

RECURSIVE StepDownNoBreak(_, _, _)
\* StepDown without the break: an elementwise threshold.
StepDownNoBreak(tup, k, alpha) ==
    IF k > Len(tup) THEN <<>>
    ELSE IF tup[k][2] < alpha
         THEN <<tup[k][1]>> \o StepDownNoBreak(tup, k + 1, alpha)
         ELSE StepDownNoBreak(tup, k + 1, alpha)

RECURSIVE StepDown(_, _, _)
\* The for loop from position k on: append the original index while the corrected
\* value is < alpha, break at the first one that is not.
StepDown(tup, k, alpha) ==
    IF k > Len(tup) THEN <<>>
    ELSE IF tup[k][2] < alpha
         THEN <<tup[k][1]>> \o StepDown(tup, k + 1, alpha)
         ELSE <<>>

\* Reproject without the sort back to original index order.
ReprojectNoSort(tup) == [k \in 1..Len(tup) |-> tup[k][2]]

\* np.fromiter over sorted(corrected_pvals_tup, key=lambda x: x[0]): the corrected
\* values back in original index order.
Reproject(tup) ==
    LET byIndex == SortedByKey(tup, 1)
    IN  [k \in 1..Len(byIndex) |-> byIndex[k][2]]

\* MarkTrues writing the flags at the sorted positions instead of the original indices.
MarkTruesBySortedPosition(n, t) == [i \in 1..n |-> i <= Len(t)]

\* results = np.zeros(n, dtype=bool); results[trues] = True.
MarkTrues(n, t) == [i \in 1..n |-> i \in Range(t)]

\* _holm_bonferroni.
HolmBonferroni(p, alpha) ==
    LET sorted == SortedByKey(Enumerate(p), 2)
        corrected == CorrectedTup(sorted)
        t == StepDown(corrected, 1, alpha)
    IN  [called |-> "holm_bonferroni",
         sorted_pvals_tup |-> sorted, corrected_pvals_tup |-> corrected, trues |-> t,
         results |-> MarkTrues(Len(p), t),
         corrected_pvals |-> Reproject(corrected)]

\* The keys of the dict routines.
Routines == {"holm_bonferroni", "bonferroni", "sidak"}

\* What a call that raised leaves behind: no routine ran, nothing is returned.
NoCorrection ==
    [called |-> "none",
     sorted_pvals_tup |-> <<>>, corrected_pvals_tup |-> <<>>, trues |-> <<>>,
     results |-> <<>>, corrected_pvals |-> <<>>]

\* routines[routine](pvals, alpha).
Dispatch(routine, p, alpha) ==
    CASE routine = "holm_bonferroni" -> HolmBonferroni(p, alpha)
      [] routine = "bonferroni" -> Bonferroni(p, alpha)
      [] routine = "sidak" -> Sidak(p, alpha)

\* test_corrected with dict.get and a default in place of the assert.
test_corrected_silent_default(p, alphaArg, routineArg) ==
    LET alpha == ArgOr(alphaArg, DefaultAlpha)
        routine == ArgOr(routineArg, "holm_bonferroni")
    IN  IF routine \notin Routines
        THEN [outcome |-> "returned", r |-> HolmBonferroni(p, alpha)]
        ELSE [outcome |-> "returned", r |-> Dispatch(routine, p, alpha)]

\* test_corrected(p_values, alpha=0.05, routine="holm_bonferroni"): the outcome and
\* what the routine computed.
test_corrected(p, alphaArg, routineArg) ==
    LET alpha == ArgOr(alphaArg, DefaultAlpha)
        routine == ArgOr(routineArg, "holm_bonferroni")
    IN  IF routine \notin Routines
        THEN [outcome |-> "AssertionError", r |-> NoCorrection]
        ELSE [outcome |-> "returned", r |-> Dispatch(routine, p, alpha)]

(***************************************************************************)
(* src/stattests.py                                                        *)
(***************************************************************************)
\* Where sorted(reverse=True) puts v in an already sorted sequence of numbers.
InsertDesc(s, v) ==
    LET k == Cardinality({i \in DOMAIN s : s[i] >= v})
    IN  SubSeq(s, 1, k) \o <<v>> \o SubSeq(s, k + 1, Len(s))

RECURSIVE SortedReverse(_)
\* sorted(values, reverse=True).
SortedReverse(s) ==
    IF s = <<>> THEN <<>>
    ELSE InsertDesc(SortedReverse(SubSeq(s, 1, Len(s) - 1)), s[Len(s)])

\* PositionOf keeping the position of a value's FIRST occurrence.
PositionOfFirst(sorted, v) ==
    CHOOSE i \in DOMAIN sorted :
        sorted[i] = v /\ \A j \in DOMAIN sorted : sorted[j] = v => i <= j

\* The dict comprehension {value: i+1 for i, value in enumerate(sorted)}: a later
\* occurrence of a value overwrites an earlier one, so a value keeps the position
\* of its LAST occurrence.
PositionOf(sorted, v) ==
    CHOOSE i \in DOMAIN sorted :
        sorted[i] = v /\ \A j \in DOMAIN sorted : sorted[j] = v => j <= i

RECURSIVE SumRange(_, _)
\* sum(range(r, r - count, -1)): r + (r-1) + ... + (r-count+1).
SumRange(r, count) == IF count <= 0 THEN 0 ELSE r + SumRange(r - 1, count - 1)

\* rank without the averaging of tied values.
rank_no_tie_average(values) ==
    [v \in Range(values) |-> 2 * PositionOf(SortedReverse(values), v)]

\* rank(values): value -> rank, DOUBLED.  A value that occurs count > 1 times gets
\* sum(range(position, position - count, -1)) / count.
rank(values) ==
    LET c == Counter(values)
        sorted == SortedReverse(values)
    IN  [v \in Range(values) |->
            IF c[v] > 1
            THEN (2 * SumRange(PositionOf(sorted, v), c[v])) \div c[v]
            ELSE 2 * PositionOf(sorted, v)]

\* MinU taking U1 whatever U2 is.
FirstU(u1, u2) == u1

\* min([U1, U2]).
MinU(u1, u2) == IF u1 <= u2 THEN u1 ELSE u2

Sign(d) == IF d < 0 THEN -1 ELSE IF d > 0 THEN 1 ELSE 0

\* The value of z while there is none.
NoZ == [sgn |-> 0, num |-> 0, den |-> 1]

\* n1*n2 / (n*(n-1)) divides by the integer 0.
IntDivisionByZero(n) == n * (n - 1) = 0

\* A float division that yields nan or inf instead of raising.
FloatDivisionNeverRaises(n1, n2, T) == FALSE

\* (U - mean) / std divides by the float 0.0: std is 0.0 exactly when n1*n2*T is 0.
FloatDivisionByZero(n1, n2, T) == n1 * n2 * T = 0

\* calculate_z(ranks1, ranks2), ranks doubled.  With
\*   T = (n**3 - n) - sum(count**3 - count)      (12 times the second radicand)
\* std**2 is n1*n2*T / (12*n*(n-1)), and z**2 = (U - mean)**2 / std**2
\*   = 3 * (2U - 2mean)**2 * n*(n-1) / (n1*n2*T).
calculate_z(ranks1, ranks2) ==
    LET n1 == Len(ranks1)
        n2 == Len(ranks2)
        R1 == SumSeq(ranks1)
        R2 == SumSeq(ranks2)
        u1 == 2 * n1 * n2 + n1 * (n1 + 1) - R1
        u2 == 2 * n1 * n2 + n2 * (n2 + 1) - R2
        mean == n1 * n2
        n == n1 + n2
        count == Counter(ranks1 \o ranks2)
        sigma == SumSeq([k \in 1..Len(ranks1 \o ranks2) |->
                    LET v == (ranks1 \o ranks2)[k]
                    IN  IF count[v] > 1
                           /\ \A j \in 1..(k - 1) : (ranks1 \o ranks2)[j] # v
                        THEN count[v] ^ 3 - count[v] ELSE 0])
        T == (n ^ 3 - n) - sigma
        U == MinU(u1, u2)
        d == U - mean
        out(o, zz) == [outcome |-> o, U1 |-> u1, U2 |-> u2, z |-> zz]
    IN  IF u1 + u2 # 2 * n1 * n2 THEN out("AssertionError", NoZ)
        ELSE IF IntDivisionByZero(n) THEN out("ZeroDivisionError", NoZ)
        ELSE IF T < 0 THEN out("ValueError", NoZ)
        ELSE IF FloatDivisionByZero(n1, n2, T) THEN out("ZeroDivisionError", NoZ)
        ELSE out("returned",
                 [sgn |-> Sign(d), num |-> 3 * d * d * n * (n - 1), den |-> n1 * n2 * T])

\* The standard normal CDF 0.5 * (1 + erf(z / sqrt(2))) at the points where it
\* takes these values: <<z in hundredths, CDF in thousandths>>.
PhiTable ==
    << <<-258, 5>>, <<-233, 10>>, <<-196, 25>>, <<-164, 50>>, <<-128, 100>>,
       <<-67, 250>>, <<0, 500>>, <<67, 750>>, <<128, 900>>, <<164, 950>>,
       <<196, 975>>, <<233, 990>>, <<258, 995>> >>

\* z >= b / 100, decided exactly from z's sign and square.
ZAtLeast(zz, b) ==
    IF b <= 0
    THEN zz.sgn >= 0 \/ zz.num * 10 ^ 4 <= b * b * zz.den
    ELSE zz.sgn > 0 /\ zz.num * 10 ^ 4 >= b * b * zz.den

\* z_to_p(z), in thousandths, to the resolution of PhiTable: the CDF at the last
\* table point not above z (0 below the first).  The CDF is increasing, so this is
\* exact at every table point and a lower bound between two of them.
z_to_p(zz) ==
    LET below == {k \in DOMAIN PhiTable : ZAtLeast(zz, PhiTable[k][1])}
    IN  IF below = {} THEN 0
        ELSE PhiTable[CHOOSE k \in below : \A j \in below : j <= k][2]

\* p's default value, in thousandths.
DefaultP == 50

\* What mannwhitneyu leaves behind when it returns nothing.
NoPVal == 0 - 1

\* mannwhitneyu(x1, x2, p=0.05).  p_val < p/2 is tested as 2 * p_val < p.
mannwhitneyu(a, b, pArg) ==
    LET p == ArgOr(pArg, DefaultP)
        rd == rank(a \o b)
        x1_ranks == [i \in 1..Len(a) |-> rd[a[i]]]
        x2_ranks == [i \in 1..Len(b) |-> rd[b[i]]]
        cz == calculate_z(x1_ranks, x2_ranks)
        pv == z_to_p(cz.z)
    IN  IF cz.outcome # "returned"
        THEN [outcome |-> cz.outcome, rank_dict |-> rd, U1 |-> cz.U1, U2 |-> cz.U2,
              z |-> NoZ, p_val |-> NoPVal, significant |-> FALSE]
        ELSE [outcome |-> "returned", rank_dict |-> rd, U1 |-> cz.U1, U2 |-> cz.U2,
              z |-> cz.z, p_val |-> pv, significant |-> 2 * pv < p]

(***************************************************************************)
(* The state machine: one call per behaviour                               *)
(***************************************************************************)
PValueVectors == SeqsUpTo(PVals, MaxLen)

Samples == SeqsUpTo(Observations, MaxN)

SamplePairs == (Samples \X Samples) \cup ScenarioPairs

Init ==
    /\ pc = "call"
    /\ outcome = "pending"
    /\ called = "none"
    /\ sorted_pvals_tup = <<>>
    /\ corrected_pvals_tup = <<>>
    /\ trues = <<>>
    /\ results = <<>>
    /\ corrected_pvals = <<>>
    /\ rank_dict = <<>>
    /\ U1 = 0
    /\ U2 = 0
    /\ z = NoZ
    /\ p_val = NoPVal
    /\ significant = FALSE
    /\ \/ /\ fn = "test_corrected"
          /\ p_values \in PValueVectors
          /\ alpha_arg \in Optional(AlphaGiven)
          /\ routine_arg \in Optional(RoutineGiven)
          /\ x1 = <<>>
          /\ x2 = <<>>
          /\ p_arg = <<>>
       \/ /\ fn = "mannwhitneyu"
          /\ \E pair \in SamplePairs : x1 = pair[1] /\ x2 = pair[2]
          /\ p_arg \in Optional(PGiven)
          /\ p_values = <<>>
          /\ alpha_arg = <<>>
          /\ routine_arg = <<>>

\* A call of test_corrected runs to its end.
TestCorrected ==
    /\ pc = "call"
    /\ fn = "test_corrected"
    /\ LET ret == test_corrected(p_values, alpha_arg, routine_arg)
       IN  /\ outcome' = ret.outcome
           /\ called' = ret.r.called
           /\ sorted_pvals_tup' = ret.r.sorted_pvals_tup
           /\ corrected_pvals_tup' = ret.r.corrected_pvals_tup
           /\ trues' = ret.r.trues
           /\ results' = ret.r.results
           /\ corrected_pvals' = ret.r.corrected_pvals
    /\ pc' = "done"
    /\ UNCHANGED <<fn, p_values, alpha_arg, routine_arg, x1, x2, p_arg,
                   rank_dict, U1, U2, z, p_val, significant>>

\* A call of mannwhitneyu runs to its end.
MannWhitneyU ==
    /\ pc = "call"
    /\ fn = "mannwhitneyu"
    /\ LET ret == mannwhitneyu(x1, x2, p_arg)
       IN  /\ outcome' = ret.outcome
           /\ rank_dict' = ret.rank_dict
           /\ U1' = ret.U1
           /\ U2' = ret.U2
           /\ z' = ret.z
           /\ p_val' = ret.p_val
           /\ significant' = ret.significant
    /\ pc' = "done"
    /\ UNCHANGED <<fn, p_values, alpha_arg, routine_arg, x1, x2, p_arg, called,
                   sorted_pvals_tup, corrected_pvals_tup, trues, results,
                   corrected_pvals>>

Next == TestCorrected \/ MannWhitneyU

Spec == Init /\ [][Next]_vars

(***************************************************************************)
(* Vocabulary of the properties, stated from the inputs alone              *)
(***************************************************************************)
\* The call has ended.
Done == pc = "done"

\* A call of test_corrected has ended after running _holm_bonferroni.
HolmDone == Done /\ fn = "test_corrected" /\ called = "holm_bonferroni"

\* A call of mannwhitneyu has ended.
MWDone == Done /\ fn = "mannwhitneyu"

\* alpha as the call binds it.
Alpha == IF alpha_arg = <<>> THEN 50 ELSE alpha_arg[1]

\* The routine name as the call binds it.
RoutineName == IF routine_arg = <<>> THEN "holm_bonferroni" ELSE routine_arg[1]

\* 1-based position of original index i in the stable ascending sort of p_values:
\* one more than the number of entries that are smaller, or equal and earlier.
SortPos(i) ==
    1 + Cardinality({j \in DOMAIN p_values :
                        \/ p_values[j] < p_values[i]
                        \/ p_values[j] = p_values[i] /\ j < i})

\* The Holm-Bonferroni corrected value of original index i: its p-value times the
\* multiplier n, n-1, ..., 1 of its sorted position.
HolmValue(i) == p_values[i] * (Len(p_values) - SortPos(i) + 1)

\* The pooled observations of a mannwhitneyu call.
Pooled == x1 \o x2

\* Number of pooled observations equal to v, and number that are >= v.
Occurrences(v) == Cardinality({k \in DOMAIN Pooled : Pooled[k] = v})

AtLeast(v) == Cardinality({k \in DOMAIN Pooled : Pooled[k] >= v})

\* Every pooled observation has the same value (the tie-corrected std is 0).
AllPooledEqual == Cardinality(Range(Pooled)) <= 1

(***************************************************************************)
(* C1  Holm-Bonferroni marks original index i significant if and only if   *)
(* the corrected value is < alpha at i's sorted position and at every      *)
(* earlier sorted position; from the first sorted position whose corrected *)
(* value is >= alpha on, nothing is significant, whatever its own value.   *)
(***************************************************************************)
C1_StepDownSignificance ==
    HolmDone =>
        /\ DOMAIN results = DOMAIN p_values
        /\ \A i \in DOMAIN p_values :
              results[i] <=>
                  \A j \in DOMAIN p_values :
                      SortPos(j) <= SortPos(i) => HolmValue(j) < Alpha
        /\ \A i, j \in DOMAIN p_values :
              (HolmValue(j) >= Alpha /\ SortPos(j) <= SortPos(i)) => ~results[i]

\* A call where some index is significant and a later sorted position has a
\* corrected value < alpha and still is not significant.
C1_Witness ==
    /\ HolmDone
    /\ \E i, j \in DOMAIN p_values :
          /\ results[j]
          /\ corrected_pvals[i] < Alpha
          /\ ~results[i]

(***************************************************************************)
(* C2  Holm-Bonferroni monotonicity: if index i is significant, so is      *)
(* every index j whose p-value is <= p_values[i], ties included.           *)
(***************************************************************************)
C2_Monotone ==
    HolmDone =>
        \A i, j \in DOMAIN p_values :
            (results[i] /\ p_values[j] <= p_values[i]) => results[j]

\* A call with two tied p-values that are significant, a smaller significant one and
\* a non-significant one.
C2_Witness ==
    /\ HolmDone
    /\ \E i, j, k, m \in DOMAIN p_values :
          /\ i # j
          /\ p_values[i] = p_values[j]
          /\ results[i]
          /\ results[j]
          /\ p_values[k] < p_values[i]
          /\ results[k]
          /\ ~results[m]

(***************************************************************************)
(* C3  For p_values = [0.01, 0.04, 0.03, 0.005], alpha = 0.05 and          *)
(* holm_bonferroni: the corrected values in sorted order are               *)
(* [0.02, 0.03, 0.06, 0.04] and the step-down stops at 0.06.               *)
(***************************************************************************)
\* The scenario's call has ended.
C3_Scenario ==
    /\ Done
    /\ fn = "test_corrected"
    /\ p_values = <<10, 40, 30, 5>>
    /\ Alpha = 50
    /\ RoutineName = "holm_bonferroni"

\* The corrected values in sorted order, as the scenario states them.
C3_SortedCorrected ==
    /\ outcome = "returned"
    /\ [k \in DOMAIN corrected_pvals_tup |-> corrected_pvals_tup[k][2]]
          = <<20, 30, 60, 40>>
    /\ Len(trues) = 2

\* As claimed: the vector returned in original index order is
\* [True, True, False, False].
C3_Original ==
    C3_Scenario => (C3_SortedCorrected /\ results = <<TRUE, TRUE, FALSE, FALSE>>)

\* As amended: the vector returned in original index order is
\* [True, False, False, True] (the p-values 0.01 and 0.005 sit at indices 0 and 3),
\* and the corrected values are returned in original order as [0.03, 0.04, 0.06, 0.02].
C3_ScenarioOriginalOrder ==
    C3_Scenario =>
        /\ C3_SortedCorrected
        /\ results = <<TRUE, FALSE, FALSE, TRUE>>
        /\ corrected_pvals = <<30, 40, 60, 20>>

\* The scenario's call has returned, with the routine given by name.
C3_Witness == C3_Scenario /\ routine_arg = <<"holm_bonferroni">> /\ outcome = "returned"

(***************************************************************************)
(* C4  Holm-Bonferroni index alignment: both returned vectors have the     *)
(* input's length n (0 included); corrected_pvals[i] is p_values[i] times  *)
(* n - k, k the 0-based position of i in the stable ascending sort; the    *)
(* flag of a sorted position is written at its original index only.        *)
(***************************************************************************)
C4_IndexAlignment ==
    HolmDone =>
        /\ Len(results) = Len(p_values)
        /\ Len(corrected_pvals) = Len(p_values)
        /\ \A i \in DOMAIN p_values :
              /\ corrected_pvals[i] = p_values[i] * (Len(p_values) - (SortPos(i) - 1))
              /\ results[i] <=> SortPos(i) <= Len(trues)
        /\ \A k \in DOMAIN trues : SortPos(trues[k]) = k

\* A call on an unsorted vector with a tie, where some but not all are significant.
C4_Witness ==
    /\ HolmDone
    /\ Len(p_values) >= 3
    /\ p_values[1] > p_values[2]
    /\ \E i, j \in DOMAIN p_values : i # j /\ p_values[i] = p_values[j] /\ p_values[i] > 0
    /\ \E i, j \in DOMAIN p_values : results[i] /\ ~results[j]

(***************************************************************************)
(* C5  For every pair of nonempty samples the ranks make U1 + U2 equal     *)
(* n1 * n2, so the assertion in calculate_z never fails.                   *)
(***************************************************************************)
C5_USumInvariant ==
    (MWDone /\ x1 # <<>> /\ x2 # <<>>) =>
        /\ outcome # "AssertionError"
        /\ U1 + U2 = 2 * Len(x1) * Len(x2)

\* A call on samples of different sizes with a tie inside x1 and a tie across the
\* samples, which returned.
C5_Witness ==
    /\ MWDone
    /\ outcome = "returned"
    /\ Len(x1) # Len(x2)
    /\ \E i, j \in DOMAIN x1 : i # j /\ x1[i] = x1[j]
    /\ \E i \in DOMAIN x1 : \E j \in DOMAIN x2 : x1[i] = x2[j]

(***************************************************************************)
(* C6  For identical samples with at least two distinct values the test    *)
(* yields U1 = U2, is not significant, and returns a p-value near 1.0: a   *)
(* p_val above 0.5, a z-score above 0.                                     *)
(***************************************************************************)
C6_IdenticalSamplesNearOne ==
    (MWDone /\ x1 = x2 /\ Cardinality(Range(x1)) >= 2) =>
        /\ outcome = "returned"
        /\ U1 = U2
        /\ ~significant
        /\ p_val > 500
        /\ z.sgn = 1

(***************************************************************************)
(* C7  The ranks of rank(), summed over all n pooled occurrences, equal    *)
(* n(n+1)/2; a value occurring count times whose last descending position *)
(* is p gets rank p - (count-1)/2, so a value occurring once keeps its     *)
(* plain descending position; an empty input yields an empty mapping.      *)
(* (Ranks are stored doubled.)                                             *)
(***************************************************************************)
C7_RankSum ==
    MWDone =>
        /\ DOMAIN rank_dict = Range(Pooled)
        /\ SumSeq([k \in DOMAIN Pooled |-> rank_dict[Pooled[k]]])
              = Len(Pooled) * (Len(Pooled) + 1)
        /\ \A v \in Range(Pooled) :
              rank_dict[v] = 2 * AtLeast(v) - (Occurrences(v) - 1)

\* A call whose pooled observations hold a value occurring three times or more, a
\* value occurring twice and a value occurring once.
C7_Witness ==
    /\ MWDone
    /\ \E u, v, w \in Range(Pooled) :
          /\ Occurrences(u) >= 3
          /\ Occurrences(v) = 2
          /\ Occurrences(w) = 1
          /\ rank_dict[w] = 2 * AtLeast(w)

(***************************************************************************)
(* C8  mannwhitneyu never returns a result for degenerate input: when      *)
(* either sample is empty, or all pooled observations are equal, the call  *)
(* ends in an error.                                                       *)
(***************************************************************************)
C8_DegenerateRaises ==
    (MWDone /\ (x1 = <<>> \/ x2 = <<>> \/ AllPooledEqual)) =>
        /\ outcome = "ZeroDivisionError"
        /\ p_val = NoPVal
        /\ ~significant

\* A call on two nonempty samples of one common value, which raised.
C8_Witness ==
    /\ MWDone
    /\ Len(x1) >= 2
    /\ x2 # <<>>
    /\ AllPooledEqual
    /\ outcome = "ZeroDivisionError"

(***************************************************************************)
(* C9  test_corrected with a routine name outside the three known names    *)
(* fails at once: no routine runs and nothing is returned; with a known    *)
(* name (holm_bonferroni when omitted) exactly that routine runs.          *)
(***************************************************************************)
C9_Dispatch ==
    (Done /\ fn = "test_corrected") =>
        IF RoutineName \in {"holm_bonferroni", "bonferroni", "sidak"}
        THEN /\ outcome = "returned"
             /\ called = RoutineName
             /\ Len(results) = Len(p_values)
             /\ RoutineName = "bonferroni" =>
                   \A i \in DOMAIN p_values :
                       /\ corrected_pvals[i] = p_values[i] * Len(p_values)
                       /\ results[i] <=> corrected_pvals[i] < Alpha
             /\ RoutineName = "holm_bonferroni" =>
                   \A i \in DOMAIN p_values : corrected_pvals[i] = HolmValue(i)
             /\ RoutineName = "sidak" => trues = <<>> /\ sorted_pvals_tup = <<>>
        ELSE /\ outcome = "AssertionError"
             /\ called = "none"
             /\ results = <<>>
             /\ corrected_pvals = <<>>

\* A call with an unknown routine name on a nonempty vector, which raised.
C9_Witness ==
    /\ Done
    /\ fn = "test_corrected"
    /\ routine_arg = <<"fdr">>
    /\ p_values # <<>>
    /\ outcome = "AssertionError"

(***************************************************************************)
(* C10  Sample-order symmetry: for nonempty samples with nonzero variance  *)
(* mannwhitneyu(x1, x2, p) and mannwhitneyu(x2, x1, p) return the same     *)
(* result (U1 and U2 swap), and z <= 0 in every call.                      *)
(***************************************************************************)
C10_Symmetry ==
    (MWDone /\ x1 # <<>> /\ x2 # <<>> /\ ~AllPooledEqual) =>
        LET swapped == mannwhitneyu(x2, x1, p_arg)
        IN  /\ outcome = "returned"
            /\ swapped.outcome = "returned"
            /\ swapped.significant = significant
            /\ swapped.p_val = p_val
            /\ swapped.z = z
            /\ swapped.U1 = U2
            /\ swapped.U2 = U1
            /\ z.sgn <= 0
            /\ p_val <= 500

\* A call on samples of different sizes with U1 > U2, significant.
C10_Witness ==
    /\ MWDone
    /\ outcome = "returned"
    /\ Len(x1) # Len(x2)
    /\ U1 > U2
    /\ significant

====
